---- MODULE Spec2Model ----
(***************************************************************************)
(* A model of the comfyui-sdk scheduler (ComfyPool), of the per-job        *)
(* execution correlator (CallWrapper.run) and of the workflow bypass       *)
(* transformation (CallWrapper.bypassWorkflowNodes).                       *)
(*                                                                         *)
(* Eight specifications share the module:                                  *)
(*   Spec        the pool: clients, policies, pushes, the dispatch loop    *)
(*   SpecQueue   the pool with explicitly weighted submissions             *)
(*   SpecOrder   the queue of one client with every job numbered           *)
(*   SpecRun     the promises of run() and batch() and the pool's events   *)
(*   SpecRemove  the pool while clients are removed                        *)
(*   SpecRoutine the pool under round robin with three clients             *)
(*   SpecCall    one CallWrapper.run() against one client                  *)
(*   SpecBypass  bypassWorkflowNodes on small workflow graphs              *)
(* Each specification leaves the variables of the other parts untouched.   *)
(***************************************************************************)
EXTENDS Integers, Sequences, FiniteSets, TLC

VARIABLES
  \* ---- ComfyPool ----
  rev,           \* which revision of pool.ts runs (fixed at construction)
  mode,          \* ComfyPool.mode
  clients,       \* ComfyPool.clients, each client written as its id
  clientStates,  \* ComfyPool.clientStates, index-aligned with ComfyPool.clients
  jobQueue,      \* ComfyPool.jobQueue
  routineIdx,    \* ComfyPool.routineIdx
  poolPc,        \* where the dispatch loop (pickJob) stands
  job,           \* the job pickJob has shifted and holds (RevFilter): <<>> or <<j>>
  nSubmitted,    \* history: jobs submitted before the first dequeue
  dispatched,    \* history: the jobs handed to clients, in order, as long
                 \* as no job was submitted after a dequeue
  lastPick,      \* history: the selection made by the step just taken
  lateSubmit,    \* history: a job was enqueued after a job had been dequeued
  rr,            \* history: the round-robin selections made so far
  runs,          \* per numbered job of RunFollowed / batch: the promise
                 \* run() returned, the calls of the job, the pool's events
  batchAll,      \* the Promise.all of batch(): its jobs and its promise
  \* ---- CallWrapper (one run() against one client) ----
  mapOutputKeys, \* PromptBuilder.mapOutputKeys: the sequence of <<key, node>>
  cw,            \* the CallWrapper object and the locals of run()
  srv,           \* the server's record of the prompt
  histOut,       \* the nodes with an output in the server's history record
  trace,         \* history: summary of the pushes delivered so far
  histMiss,      \* history: a history fetch returned no completed record
  \* ---- CallWrapper.enqueueJob / bypassWorkflowNodes ----
  prompt,        \* PromptBuilder: [workflow, bypassNodes]
  workflow,      \* the clone of prompt.workflow that enqueueJob transforms
  bypassIdx,     \* the position of bypassWorkflowNodes in prompt.bypassNodes
  bypassPc       \* where enqueueJob stands

poolVars == <<rev, mode, clients, clientStates, jobQueue, routineIdx, poolPc, job,
              nSubmitted, dispatched, lastPick, lateSubmit, rr, runs,
              batchAll>>

callVars == <<mapOutputKeys, cw, srv, histOut, trace, histMiss>>

bypassVars == <<prompt, workflow, bypassIdx, bypassPc>>

vars == <<poolVars, callVars, bypassVars>>

----------------------------------------------------------------------------
(* Bounds *)

\* jobs submitted without a weight that may be pending at once
MaxQueue == 1
\* jobs submitted with an explicit weight that may be pending at once
MaxWeightedQueue == 4
\* round-robin selections followed by the history variable rr
MaxRoutinePicks == 6
\* the largest queue_remaining a status push reports
MaxQueueRemaining == 1
\* jobs submitted to a pool whose every job is numbered
MaxFollowed == 4
\* jobs submitted to a pool whose promises are followed
MaxBatch == 2
\* status / execution_success handlers of one run awaiting a fetch at once
MaxInFlight == 2
\* invocations of one callback that are counted (more are counted as this)
MaxCalls == 2

----------------------------------------------------------------------------
(* ComfyPool *)

\* The two revisions of the pool whose selection code differs.
\*   RevWeight: weighted queue, selection over all clients with a final lock
\*              test (the selection code of src/src/pool.ts)
\*   RevFilter: weighted queue with client filters, selection over the
\*              accepted (online, filtered) clients
RevWeight == "weight"
RevFilter == "filter"
Revisions == {RevWeight, RevFilter}

PICK_ZERO == "PICK_ZERO"
PICK_LOWEST == "PICK_LOWEST"
PICK_ROUTINE == "PICK_ROUTINE"
EQueueMode == {PICK_ZERO, PICK_LOWEST, PICK_ROUTINE}

\* Number.MAX_SAFE_INTEGER (2^53 - 1), the queue size an offline client is
\* given under PICK_LOWEST. The checker's integers are 32 bits wide, so the
\* largest of those stands for it: it only has to exceed every queueRemaining.
MaxSafeInteger == 2147483647

\* routineIdx after `x % 0`: NaN. NaN % n, NaN + 1 are NaN again.
NaN == -1

\* the clients the pool is constructed with
ClientIds == <<"a", "b">>
RoutineClientIds == <<"a", "b", "c">>
QueueClientIds == <<"a">>

NoJob == <<>>
NoPick == [client |-> 0, mode |-> "none", queueRemaining |-> 0,
           online |-> FALSE, locked |-> FALSE]
NoRR == [ok |-> TRUE, elig |-> {}, picks |-> <<>>]

Range(s) == {s[i] : i \in 1..Len(s)}

Min(S) == CHOOSE x \in S : \A y \in S : x <= y

\* Array.prototype.findIndex / indexOf over the sequence of the test's
\* results, 1-based; 0 stands for -1.
FindIndex(hits) ==
  IF \E i \in 1..Len(hits) : hits[i]
  THEN Min({i \in 1..Len(hits) : hits[i]})
  ELSE 0

\* new ComfyPool(clients, mode): one state per client
NewClientState(id) ==
  [id |-> id, queueRemaining |-> 0, locked |-> FALSE, online |-> FALSE]

InitClientStates(ids) == [i \in 1..Len(ids) |-> NewClientState(ids[i])]

InsertAt(s, i, e) == SubSeq(s, 1, i - 1) \o <<e>> \o SubSeq(s, i, Len(s))

\* (mutant) insertion before the first job of greater or equal weight
pushJobByWeightNotStable(queue, item) ==
  LET idx == FindIndex([i \in 1..Len(queue) |-> queue[i].weight >= item.weight])
  IN IF idx = 0 THEN Append(queue, item) ELSE InsertAt(queue, idx, item)

\* (mutant) insertion at the end whatever the weights
pushJobLast(queue, item) == Append(queue, item)

\* pushJobByWeight: before the first job of strictly greater weight, else last
pushJobByWeight(queue, item) ==
  LET idx == FindIndex([i \in 1..Len(queue) |-> queue[i].weight > item.weight])
  IN IF idx = 0 THEN Append(queue, item) ELSE InsertAt(queue, idx, item)

\* claim(fn, weight, clientFilter): weight 0 stands for `undefined` when
\* hasWeight is FALSE. id and explicit are history: the number of the
\* submission and whether it gave a weight.
claim(queue, id, hasWeight, weight, include, exclude) ==
  LET inputWeight == IF hasWeight THEN weight ELSE Len(queue)
  IN pushJobByWeight(queue,
       [id |-> id, weight |-> inputWeight, explicit |-> hasWeight,
        include |-> include, exclude |-> exclude])

\* ---- selection, src/src/pool.ts (RevWeight) ----

PickZero(states) ==
  FindIndex([i \in 1..Len(states) |->
               states[i].queueRemaining = 0 /\ ~states[i].locked
               /\ states[i].online])

PickLowest(states) ==
  LET queueSizes == [i \in 1..Len(states) |->
                       IF states[i].online THEN states[i].queueRemaining
                       ELSE MaxSafeInteger]
  IN IF Len(states) = 0 THEN 0
     ELSE FindIndex([i \in 1..Len(queueSizes) |->
                       queueSizes[i] = Min(Range(queueSizes))])

PickRoutine(states, rIdx) ==
  LET index == (rIdx % Len(states)) + 1
  IN IF states[index].online THEN index ELSE 0

\* One pass of the while loop of getAvailableClient: the index locked and
\* returned (0: none, the loop delays and retries) and the new routineIdx.
getAvailableClient(states, m, rIdx) ==
  LET index == CASE m = PICK_ZERO -> PickZero(states)
                 [] m = PICK_LOWEST -> PickLowest(states)
                 [] m = PICK_ROUTINE -> PickRoutine(states, rIdx)
  IN [index |-> IF index # 0 /\ ~states[index].locked THEN index ELSE 0,
      routineIdx |-> IF m = PICK_ROUTINE THEN (rIdx + 1) % Len(states)
                     ELSE rIdx]

\* ---- selection, the revision with client filters (RevFilter) ----

\* (mutant) every online client is accepted
acceptedClientsOnline(states, include, exclude) ==
  SelectSeq([i \in 1..Len(states) |-> i], LAMBDA i : states[i].online)

\* acceptedClients, as the indexes into clientStates of the states kept
acceptedClients(states, include, exclude) ==
  SelectSeq([i \in 1..Len(states) |-> i],
            LAMBDA i :
              IF ~states[i].online THEN FALSE
              ELSE IF include # {} THEN states[i].id \in include
              ELSE IF exclude # {} THEN states[i].id \notin exclude
              ELSE TRUE)

\* (mutant) PICK_ZERO without the queueRemaining test
PickZeroAcceptedAnyQueue(states, acc) ==
  FindIndex([k \in 1..Len(acc) |->
               ~states[acc[k]].locked /\ states[acc[k]].id # ""])

PickZeroAccepted(states, acc) ==
  FindIndex([k \in 1..Len(acc) |->
               states[acc[k]].queueRemaining = 0 /\ ~states[acc[k]].locked
               /\ states[acc[k]].id # ""])

PickLowestAccepted(states, acc) ==
  LET queueSizes == [k \in 1..Len(acc) |->
                       IF states[acc[k]].online
                       THEN states[acc[k]].queueRemaining
                       ELSE MaxSafeInteger]
  IN IF Len(acc) = 0 THEN 0
     ELSE FindIndex([i \in 1..Len(queueSizes) |->
                       queueSizes[i] = Min(Range(queueSizes))])

\* routineIdx++ % acceptedClients.length: NaN when the list is empty or the
\* cursor already is NaN; acceptedClients[NaN] is undefined
PickRoutineAccepted(acc, rIdx) ==
  IF rIdx = NaN \/ Len(acc) = 0 THEN 0 ELSE (rIdx % Len(acc)) + 1

\* (mutant) the cursor is not advanced
RoutineIdxAcceptedStuck(acc, rIdx) ==
  IF rIdx = NaN \/ Len(acc) = 0 THEN NaN ELSE rIdx % Len(acc)

RoutineIdxAccepted(acc, rIdx) ==
  IF rIdx = NaN \/ Len(acc) = 0 THEN NaN ELSE (rIdx + 1) % Len(acc)

getAvailableClientAccepted(states, m, rIdx, include, exclude) ==
  LET acc == acceptedClients(states, include, exclude)
      index == CASE m = PICK_ZERO -> PickZeroAccepted(states, acc)
                 [] m = PICK_LOWEST -> PickLowestAccepted(states, acc)
                 [] m = PICK_ROUTINE -> PickRoutineAccepted(acc, rIdx)
      trueIdx == IF index = 0 THEN 0
                 ELSE FindIndex([i \in 1..Len(states) |->
                                   states[i].id = states[acc[index]].id])
  IN [index |-> trueIdx,
      routineIdx |-> IF m = PICK_ROUTINE THEN RoutineIdxAccepted(acc, rIdx)
                     ELSE rIdx]

\* (mutant) a status handler that unlocks under every policy
OnStatusUnlock(c, m, queue_remaining) ==
  [c EXCEPT !.online = TRUE,
            !.queueRemaining = queue_remaining,
            !.locked = FALSE]

\* ---- the handlers initializeClient binds to a client's pushes ----
OnStatus(c, m, queue_remaining) ==
  [c EXCEPT !.online = TRUE,
            !.queueRemaining = queue_remaining,
            !.locked = IF m # PICK_ZERO THEN FALSE ELSE c.locked]

\* (mutant) a completion handler that leaves the lock
OnExecutionSuccessKeepLock(c) == c

OnDisconnected(c) == [c EXCEPT !.online = FALSE, !.locked = FALSE]

OnReconnected(c) == [c EXCEPT !.online = TRUE, !.locked = FALSE]

OnExecutionSuccess(c) == [c EXCEPT !.locked = FALSE]

OnExecutionError(c) == [c EXCEPT !.locked = FALSE]

\* ---- the promises of run() and batch() ----

\* A promise is settled once: resolve and reject of a settled promise do
\* nothing.
Settle(p, state, value) ==
  IF p.state = "pending" THEN [state |-> state, value |-> value] ELSE p

\* run() before its job is dispatched: the promise it returned, the number
\* of calls of the job with the arguments of the last one, and the events
\* the pool dispatched for it
NewRun ==
  [promise |-> [state |-> "pending", value |-> 0],
   invoked |-> 0, client |-> "", clientIdx |-> -1, events |-> <<>>]

\* no batch() was called. settled is history: the jobs of the batch in the
\* order their promises were settled.
NoBatch ==
  [jobs |-> <<>>, settled |-> <<>>,
   promise |-> [state |-> "pending", value |-> 0]]

\* clients.indexOf(client), counted from 0; -1 when absent
indexOf(cs, client) ==
  FindIndex([i \in 1..Len(cs) |-> cs[i] = client]) - 1

\* (mutant) a removal that leaves clientStates as it is
spliceStatesNone(states, index) == states

\* clients.splice(index, 1) and clientStates.splice(index, 1), index counted
\* from 0
spliceClients(cs, index) ==
  [i \in 1..(Len(cs) - 1) |-> IF i <= index THEN cs[i] ELSE cs[i + 1]]

spliceStates(states, index) ==
  [i \in 1..(Len(states) - 1) |->
     IF i <= index THEN states[i] ELSE states[i + 1]]

\* (mutant) fn calling the job without dispatching "executing"
fnSilent(run, client, idx) ==
  [run EXCEPT !.invoked = @ + 1, !.client = client, !.clientIdx = idx]

\* fn(client, idx) up to its await: "executing" is dispatched and the job
\* called
fn(run, client, idx) ==
  [run EXCEPT !.events = Append(@, "executing"),
              !.invoked = @ + 1,
              !.client = client,
              !.clientIdx = idx]

\* fn after its await: the job returned value (ok), which resolves the
\* promise before "executed" is dispatched, or threw value, which rejects it
\* before "execution_error" is dispatched
fnSettled(run, ok, value) ==
  IF ok
  THEN [run EXCEPT !.promise = Settle(@, "fulfilled", value),
                   !.events = Append(@, "executed")]
  ELSE [run EXCEPT !.promise = Settle(@, "rejected", value),
                   !.events = Append(@, "execution_error")]

\* (mutant) Promise.all collecting the values in the order of settlement
PromiseAllAsSettled(b, rs, k, ok) ==
  IF k \notin Range(b.jobs) THEN b
  ELSE LET settled == Append(b.settled, k)
       IN [b EXCEPT
             !.settled = settled,
             !.promise =
               IF ~ok THEN Settle(@, "rejected", rs[k].promise.value)
               ELSE IF \A i \in Range(b.jobs) :
                         rs[i].promise.state = "fulfilled"
                    THEN Settle(@, "fulfilled",
                                [i \in 1..Len(settled) |->
                                   rs[settled[i]].promise.value])
                    ELSE @]

\* Promise.all of the promises of the jobs of batch b when the promise of
\* run k is settled (rs: the runs after it): rejected with the reason of
\* the first rejection, fulfilled with the values in the order of the jobs
\* once all are fulfilled
PromiseAll(b, rs, k, ok) ==
  IF k \notin Range(b.jobs) THEN b
  ELSE [b EXCEPT
          !.settled = Append(@, k),
          !.promise =
            IF ~ok THEN Settle(@, "rejected", rs[k].promise.value)
            ELSE IF \A i \in Range(b.jobs) :
                      rs[i].promise.state = "fulfilled"
                 THEN Settle(@, "fulfilled",
                             [i \in 1..Len(b.jobs) |->
                                rs[b.jobs[i]].promise.value])
                 ELSE @]

\* jobs.map(task => this.run(task)): the claims of n jobs numbered from
\* first, in the order of the array
RECURSIVE claimAll(_, _, _)
claimAll(queue, first, n) ==
  IF n = 0 THEN queue
  ELSE claimAll(claim(queue, first, FALSE, 0, {}, {}), first + 1, n - 1)

\* ---- history kept for the properties ----

\* The clients a round-robin attempt may pick: the online, unlocked ones
\* where the lock is tested (RevWeight), the accepted ones otherwise.
Eligible(r, states) ==
  {i \in 1..Len(states) :
     states[i].online /\ (r = RevWeight => ~states[i].locked)}

\* rr follows the selections of the pool of RoutineClientIds as long as
\* every attempt was made under PICK_ROUTINE, for a job without filter, with
\* the same non-empty eligible set; it is given up (ok = FALSE) as soon as
\* one attempt is not, or after MaxRoutinePicks selections.
NextRR(old, r, m, states, j, index) ==
  LET elig == Eligible(r, states)
      first == old.picks = <<>> /\ old.elig = {}
      ok == /\ old.ok
            /\ Len(states) = Len(RoutineClientIds)
            /\ m = PICK_ROUTINE
            /\ j.include = {} /\ j.exclude = {}
            /\ elig # {}
            /\ (first \/ elig = old.elig)
  IN IF ~ok \/ Len(old.picks) >= MaxRoutinePicks
     THEN [ok |-> FALSE, elig |-> {}, picks |-> <<>>]
     ELSE [ok |-> TRUE, elig |-> elig,
           picks |-> IF index = 0 THEN old.picks
                     ELSE Append(old.picks, index)]

\* ---- actions ----

InitPool(ids) ==
  /\ rev \in Revisions
  /\ mode \in EQueueMode
  /\ clients = ids
  /\ clientStates = InitClientStates(ids)
  /\ jobQueue = <<>>
  /\ routineIdx = 0
  /\ poolPc = "pickJob"
  /\ job = NoJob
  /\ nSubmitted = 0
  /\ dispatched = <<>>
  /\ lastPick = NoPick
  /\ lateSubmit = FALSE
  /\ rr = NoRR
  /\ runs = <<>>
  /\ batchAll = NoBatch

Dequeued == Len(dispatched) + Len(job)

\* run(job, weight, clientFilter) -> claim. A job submitted before the first
\* dequeue is numbered (id); the later ones are not followed (id 0).
Submit(hasWeight, weight, include, exclude) ==
  LET late == lateSubmit \/ Dequeued > 0
      id == IF late THEN 0 ELSE nSubmitted + 1
  IN /\ nSubmitted' = IF late THEN nSubmitted ELSE nSubmitted + 1
     /\ jobQueue' = claim(jobQueue, id, hasWeight, weight, include, exclude)
     /\ lateSubmit' = late
     /\ dispatched' = IF late THEN <<>> ELSE dispatched
     /\ lastPick' = NoPick
     /\ UNCHANGED <<rev, clients, mode, clientStates, routineIdx, poolPc, job, rr,
                    runs, batchAll>>
     /\ UNCHANGED <<callVars, bypassVars>>

\* run(job) with no weight; client filters exist in RevFilter only
RunDefault(include, exclude) ==
  /\ Len(jobQueue) < MaxQueue
  /\ rev = RevWeight => include = {} /\ exclude = {}
  /\ Submit(FALSE, 0, include, exclude)

\* run(job, weight, clientFilter) or run(job) with every job numbered, as
\* long as fewer than MaxFollowed jobs were submitted: a new promise, and
\* the claim of fn
RunFollowed(hasWeight, weight, include, exclude) ==
  /\ nSubmitted < MaxFollowed
  /\ rev = RevWeight => include = {} /\ exclude = {}
  /\ nSubmitted' = nSubmitted + 1
  /\ runs' = Append(runs, NewRun)
  /\ jobQueue' = claim(jobQueue, nSubmitted + 1, hasWeight, weight,
                       include, exclude)
  /\ lastPick' = NoPick
  /\ UNCHANGED <<rev, clients, mode, clientStates, routineIdx, poolPc, job, rr,
                 dispatched, lateSubmit, batchAll>>
  /\ UNCHANGED <<callVars, bypassVars>>

\* batch(jobs) with n jobs: run(task) for each task in turn, and Promise.all
\* of the promises
batch(n) ==
  /\ batchAll = NoBatch
  /\ nSubmitted + n <= MaxBatch
  /\ nSubmitted' = nSubmitted + n
  /\ runs' = runs \o [i \in 1..n |-> NewRun]
  /\ jobQueue' = claimAll(jobQueue, nSubmitted + 1, n)
  /\ batchAll' = [NoBatch EXCEPT !.jobs = [i \in 1..n |-> nSubmitted + i]]
  /\ lastPick' = NoPick
  /\ UNCHANGED <<rev, clients, mode, clientStates, routineIdx, poolPc, job, rr,
                 dispatched, lateSubmit>>
  /\ UNCHANGED <<callVars, bypassVars>>

\* `resolve(await job(client, idx))` once the job has returned (ok) or
\* thrown: run k is settled and Promise.all follows
jobSettled(k, ok) ==
  /\ k \in DOMAIN runs
  /\ runs[k].events = <<"executing">>
  /\ runs' = [runs EXCEPT ![k] = fnSettled(@, ok, k)]
  /\ batchAll' = PromiseAll(batchAll, runs', k, ok)
  /\ lastPick' = NoPick
  /\ UNCHANGED <<rev, clients, mode, clientStates, jobQueue, routineIdx, poolPc, job,
                 nSubmitted, dispatched, lateSubmit, rr>>
  /\ UNCHANGED <<callVars, bypassVars>>

\* run(job, weight)
RunWeighted(weight) ==
  /\ Len(jobQueue) < MaxWeightedQueue
  /\ Submit(TRUE, weight, {}, {})

changeMode(m) ==
  /\ m # mode
  /\ mode' = m
  /\ lastPick' = NoPick
  /\ UNCHANGED <<rev, clients, clientStates, jobQueue, routineIdx, poolPc, job,
                 nSubmitted, dispatched, lateSubmit, rr, runs, batchAll>>
  /\ UNCHANGED <<callVars, bypassVars>>

\* One pass of getAvailableClient for job j; on success the client is
\* locked and j.fn(client, clientIdx) is called, not awaited. With no client
\* left, round robin in RevWeight reads clientStates[NaN].online: the
\* TypeError rejects pickJob and the dispatch loop ends.
Attempt(j, queueAfter) ==
  IF rev = RevWeight /\ mode = PICK_ROUTINE /\ Len(clientStates) = 0
  THEN /\ poolPc' = "TypeError"
       /\ routineIdx' = NaN
       /\ lastPick' = NoPick
       /\ UNCHANGED <<rev, mode, clients, clientStates, jobQueue, job,
                      nSubmitted, dispatched, lateSubmit, rr, runs, batchAll>>
       /\ UNCHANGED <<callVars, bypassVars>>
  ELSE
  LET got == IF rev = RevWeight
             THEN getAvailableClient(clientStates, mode, routineIdx)
             ELSE getAvailableClientAccepted(clientStates, mode, routineIdx,
                                             j.include, j.exclude)
  IN /\ routineIdx' = got.routineIdx
     /\ rr' = NextRR(rr, rev, mode, clientStates, j, got.index)
     /\ IF got.index # 0
        THEN /\ clientStates' =
                  [clientStates EXCEPT ![got.index].locked = TRUE]
             /\ dispatched' = IF lateSubmit THEN <<>>
                              ELSE Append(dispatched, j)
             /\ lastPick' =
                  [client |-> got.index, mode |-> mode,
                   queueRemaining |-> clientStates[got.index].queueRemaining,
                   online |-> clientStates[got.index].online,
                   locked |-> clientStates[got.index].locked]
             /\ runs' =
                  IF j.id \in DOMAIN runs
                  THEN [runs EXCEPT
                          ![j.id] = fn(@, clients[got.index],
                                       indexOf(clients, clients[got.index]))]
                  ELSE runs
             /\ jobQueue' = queueAfter
             /\ job' = NoJob
             /\ poolPc' = "pickJob"
        ELSE /\ poolPc' = "getAvailableClient"
             /\ job' = IF rev = RevFilter THEN <<j>> ELSE NoJob
             /\ jobQueue' = IF rev = RevFilter THEN queueAfter ELSE jobQueue
             /\ lastPick' = NoPick
             /\ UNCHANGED <<clientStates, dispatched, runs>>
     /\ UNCHANGED <<rev, clients, mode, nSubmitted, lateSubmit, batchAll>>
     /\ UNCHANGED <<callVars, bypassVars>>

\* removeClientByIndex(index), index counted from 0
removeClientByIndex(index) ==
  /\ index >= 0 /\ index < Len(clients)
  /\ clients' = spliceClients(clients, index)
  /\ clientStates' = spliceStates(clientStates, index)
  /\ lastPick' = NoPick
  /\ UNCHANGED <<rev, mode, jobQueue, routineIdx, poolPc, job, nSubmitted,
                 dispatched, lateSubmit, rr, runs, batchAll>>
  /\ UNCHANGED <<callVars, bypassVars>>

\* removeClient(client)
removeClient(client) ==
  /\ indexOf(clients, client) # -1
  /\ clients' = spliceClients(clients, indexOf(clients, client))
  /\ clientStates' = spliceStates(clientStates, indexOf(clients, client))
  /\ lastPick' = NoPick
  /\ UNCHANGED <<rev, mode, jobQueue, routineIdx, poolPc, job, nSubmitted,
                 dispatched, lateSubmit, rr, runs, batchAll>>
  /\ UNCHANGED <<callVars, bypassVars>>

\* pickJob with a non-empty queue. RevFilter shifts the job and then looks
\* for a client; RevWeight looks for a client and shifts on success.
pickJob ==
  /\ poolPc = "pickJob"
  /\ jobQueue # <<>>
  /\ Attempt(Head(jobQueue), Tail(jobQueue))

\* getAvailableClient after `await delay(20)`: the next pass of its loop
retry ==
  /\ poolPc = "getAvailableClient"
  /\ IF rev = RevFilter
     THEN Attempt(job[1], jobQueue)
     ELSE Attempt(Head(jobQueue), Tail(jobQueue))

PushClient(i, c) ==
  /\ clientStates' = [clientStates EXCEPT ![i] = c]
  /\ lastPick' = NoPick
  /\ UNCHANGED <<rev, clients, mode, jobQueue, routineIdx, poolPc, job, nSubmitted,
                 dispatched, lateSubmit, rr, runs, batchAll>>
  /\ UNCHANGED <<callVars, bypassVars>>

status(i, queue_remaining) ==
  PushClient(i, OnStatus(clientStates[i], mode, queue_remaining))

disconnected(i) == PushClient(i, OnDisconnected(clientStates[i]))

reconnected(i) == PushClient(i, OnReconnected(clientStates[i]))

execution_success(i) == PushClient(i, OnExecutionSuccess(clientStates[i]))

execution_error(i) == PushClient(i, OnExecutionError(clientStates[i]))

----------------------------------------------------------------------------
(* CallWrapper *)

\* The node ids of the workflow; node 3 is mapped by no output key.
Nodes == {1, 2, 3}

\* The output of node n is written n; Undefined is the value of a key whose
\* node has no output, and the node of a key that was declared and not set.
Undefined == 0

\* PromptBuilder.mapOutputKeys as the sequence of its <<key, node>> entries
\* (Object.entries order); the mappings run() is followed with.
OutputMappings ==
  { << <<"k1", 1>> >>,
    << <<"k1", 1>>, <<"k2", 2>> >>,
    << <<"k1", 1>>, <<"k2", 1>> >> }

\* the event names run() subscribes to on the client
EnqueueHandlers == {"disconnected"}
LoadHandlers == {"executing", "execution_cached", "status"}
ExecutionHandlers == {"progress", "b_preview", "execution_success", "executed",
                      "execution_error", "execution_interrupted"}
Handlers == EnqueueHandlers \cup LoadHandlers \cup ExecutionHandlers

\* What a promise of run() holds: nothing yet, null, false or an output map.
\* An output map is the set of its <<key, value>> entries.
Unsettled == [kind |-> "pending", out |-> {}]
ValNull == [kind |-> "null", out |-> {}]
ValFalse == [kind |-> "false", out |-> {}]
ValOutput(o) == [kind |-> "output", out |-> o]

\* The CallWrapper after construction. pc is the await run() stands at;
\* statusHandlers and executedEnd count the activations of these handlers by
\* the await they stand at; onFinished, onFailed, onStart and onPending
\* record the invocations of these callbacks.
NewCallWrapper ==
  [pc |-> "idle", promptId |-> 0, subs |-> {},
   wentMissing |-> FALSE, cachedOutputDone |-> FALSE,
   jobDone |-> Unsettled, result |-> Unsettled,
   statusHandlers |-> [getQueue |-> 0, cachedOutputPromise |-> 0,
                       getHistory |-> 0],
   executedEnd |-> 0,
   output |-> {}, remainingOutput |-> 0, totalOutput |-> 0,
   started |-> FALSE,
   onFinished |-> 0, onFailed |-> <<>>, onStart |-> 0, onPending |-> 0]

InFlight(w) ==
  w.statusHandlers.getQueue + w.statusHandlers.cachedOutputPromise
    + w.statusHandlers.getHistory + w.executedEnd

Called(n) == IF n < MaxCalls THEN n + 1 ELSE n

onFailedFn(w, err) ==
  [w EXCEPT !.onFailed = IF Len(@) < MaxCalls THEN Append(@, err) ELSE @]

onFinishedFn(w) == [w EXCEPT !.onFinished = Called(@)]

cleanupListeners(w) == [w EXCEPT !.subs = @ \ Handlers]

\* jobDoneTrigger(v): the first call settles jobDonePromise; a run() that
\* has returned jobDonePromise resolves with it.
jobDoneTrigger(w, v) ==
  LET settled == IF w.jobDone.kind = "pending" THEN v ELSE w.jobDone
  IN [w EXCEPT !.jobDone = settled,
               !.result = IF w.pc = "jobDonePromise" THEN settled ELSE @,
               !.pc = IF w.pc = "jobDonePromise" THEN "returned" ELSE @]

\* `return jobDonePromise`
returnJobDonePromise(w) ==
  IF w.jobDone.kind = "pending"
  THEN [w EXCEPT !.pc = "jobDonePromise"]
  ELSE [w EXCEPT !.pc = "returned", !.result = w.jobDone]

\* promptLoadTrigger(_): run() goes on after `await promptLoadCached`; the
\* value the promise resolves with is not read.
promptLoadTrigger(w) ==
  IF w.pc # "promptLoadCached" THEN w
  ELSE IF w.wentMissing THEN returnJobDonePromise(w)
  ELSE [w EXCEPT !.pc = "cachedOutputPromise"]

mapOutput(M, outputNodes) ==
  {<<M[i][1], IF M[i][2] \in outputNodes THEN M[i][2] ELSE Undefined>> :
     i \in {j \in 1..Len(M) : M[j][2] # Undefined}}

\* the set of <<node, key>> entries; a node mapped by two keys keeps the last
reverseMapOutputKeys(M) ==
  {<<M[i][2], M[i][1]>> :
     i \in {j \in 1..Len(M) :
              /\ M[j][2] # Undefined
              /\ \A k \in (j + 1)..Len(M) : M[k][2] # M[j][2]}}

\* what handleCachedOutput returns for the history record it fetched
handleCachedOutputValue(M, completed, outputNodes) ==
  IF completed
  THEN LET output == mapOutput(M, outputNodes)
       IN IF \E p \in output : p[2] # Undefined
          THEN ValOutput(output) ELSE ValFalse
  ELSE ValNull

\* handleCachedOutput once the history record has arrived
handleCachedOutput(w, v) == IF v.kind = "output" THEN onFinishedFn(w) ELSE w

handleJobExecution(w, M) ==
  LET totalOutput == Cardinality(reverseMapOutputKeys(M))
  IN [w EXCEPT !.subs = @ \cup ExecutionHandlers,
               !.remainingOutput = totalOutput,
               !.totalOutput = totalOutput]

\* the `executed` handler of handleJobExecution
executionHandler(w, M, own, node) ==
  IF ~own THEN w
  ELSE LET outputKey == {p[2] : p \in {q \in reverseMapOutputKeys(M) :
                                          q[1] = node}}
           w1 == IF outputKey # {}
                 THEN [w EXCEPT
                         !.output = {p \in @ : p[1] \notin outputKey}
                                      \cup {<<k, node>> : k \in outputKey},
                         !.remainingOutput = @ - 1]
                 ELSE w
       IN IF w1.remainingOutput = 0
          THEN jobDoneTrigger(onFinishedFn(cleanupListeners(w1)),
                              ValOutput(w1.output))
          ELSE w1

handleProgress(w, own) ==
  IF own /\ ~w.started
  THEN [w EXCEPT !.started = TRUE, !.onStart = Called(@)]
  ELSE w

handleError(w, own) ==
  IF ~own THEN w
  ELSE jobDoneTrigger(cleanupListeners(onFailedFn(w, "CustomEventError")),
                      ValFalse)

\* the `execution_interrupted` handler of handleJobExecution
interruptionHandler(w, own) ==
  IF ~own THEN w
  ELSE jobDoneTrigger(
         cleanupListeners(onFailedFn(w, "ExecutionInterruptedError")),
         ValFalse)

\* ---- run(), its handlers and its awaits ----

leave(w, at) == [w EXCEPT !.statusHandlers[at] = @ - 1]

enter(w, at) == [w EXCEPT !.statusHandlers[at] = @ + 1]

\* run() when enqueueJob returned no job
runNoJob(w) ==
  [onFailedFn(w, "Error") EXCEPT !.pc = "returned", !.result = ValFalse]

\* (mutant) an enqueueJob that submits although bypassWorkflowNodes threw
enqueueJobMissingNodeSubmits(w) ==
  [onFailedFn(w, "MissingNodeError") EXCEPT !.promptId = 1,
                                            !.pc = "promptLoadCached"]

\* enqueueJob when bypassWorkflowNodes throws
enqueueJobMissingNode(w) == runNoJob(onFailedFn(w, "MissingNodeError"))

\* enqueueJob when appendPrompt rejects
enqueueJobRejected(w) == runNoJob(onFailedFn(w, "EnqueueFailedError"))

\* enqueueJob when appendPrompt resolves, and run() up to
\* `await promptLoadCached`
enqueueJobResolved(w) ==
  [w EXCEPT !.promptId = 1,
            !.onPending = Called(@),
            !.subs = @ \cup EnqueueHandlers \cup LoadHandlers,
            !.pc = "promptLoadCached"]

checkExecutingFn(w, own) == IF own THEN promptLoadTrigger(w) ELSE w

checkExecutionCachedFn(w, own, nodes) ==
  IF nodes # {} /\ own THEN promptLoadTrigger(w) ELSE w

\* statusHandler from the queue snapshot to its next await
statusHandlerQueue(w, inQueue) ==
  LET w0 == leave(w, "getQueue")
  IN IF inQueue THEN w0
     ELSE IF w0.pc = "cachedOutputPromise"
          THEN enter(w0, "cachedOutputPromise")
          ELSE IF w0.cachedOutputDone THEN w0 ELSE enter(w0, "getHistory")

\* statusHandler from the history record to its end
statusHandlerHistory(w, v) ==
  LET w0 == [handleCachedOutput(leave(w, "getHistory"), v)
               EXCEPT !.wentMissing = TRUE]
  IN IF v.kind = "output"
     THEN cleanupListeners(jobDoneTrigger(w0, v))
     ELSE promptLoadTrigger(
            onFailedFn(cleanupListeners(jobDoneTrigger(w0, ValFalse)),
                       "WentMissingError"))

\* the status handlers that awaited cachedOutputPromise, once it is settled
statusHandlerCached(w) ==
  LET n == w.statusHandlers.cachedOutputPromise
  IN [w EXCEPT !.statusHandlers.cachedOutputPromise = 0,
               !.statusHandlers.getHistory =
                  IF w.cachedOutputDone THEN @ ELSE @ + n]

\* run() from the history record of `await cachedOutputPromise` on
runCachedOutput(w, M, v) ==
  LET w0 == handleCachedOutput(w, v)
      w1 == IF v.kind = "output"
            THEN [jobDoneTrigger(
                    cleanupListeners([w0 EXCEPT !.cachedOutputDone = TRUE]),
                    v)
                    EXCEPT !.pc = "returned", !.result = v]
            ELSE IF v.kind = "false"
            THEN [jobDoneTrigger(
                    onFailedFn(
                      cleanupListeners([w0 EXCEPT !.cachedOutputDone = TRUE]),
                      "FailedCacheError"),
                    ValFalse)
                    EXCEPT !.pc = "returned", !.result = ValFalse]
            ELSE returnJobDonePromise(handleJobExecution(w0, M))
  IN statusHandlerCached(w1)

\* the `execution_success` handler of handleJobExecution up to its await
executedEnd(w) ==
  IF w.remainingOutput # 0 THEN [w EXCEPT !.executedEnd = @ + 1] ELSE w

\* executedEnd from the history record to its end
executedEndHistory(w, completed, outputCount) ==
  LET w0 == [w EXCEPT !.executedEnd = @ - 1]
  IN IF completed /\ outputCount > 0 /\ outputCount - w.totalOutput = 0
     THEN w0
     ELSE jobDoneTrigger(
            cleanupListeners(onFailedFn(w0, "ExecutionFailedError")),
            ValFalse)

\* ---- the pushes followed by the history variable trace ----

MappedNodes(M) == {M[i][2] : i \in 1..Len(M)} \ {Undefined}

NoTrace == [first |-> "none", status |-> FALSE, executed |-> {}]
OtherTrace == [first |-> "other", status |-> FALSE, executed |-> {}]

\* first: the push of the job that came first, executing or an
\* execution_cached naming every mapped node; status: a status push came;
\* executed: the mapped nodes with one executed push after executing.
\* Every other sequence of pushes is OtherTrace.
NextTrace(t, M, event, own, nodes) ==
  IF t = OtherTrace THEN t
  ELSE IF event = "status" THEN [t EXCEPT !.status = TRUE]
  ELSE IF event = "executing" /\ own /\ t.first = "none"
       THEN [t EXCEPT !.first = "executing"]
  ELSE IF /\ event = "execution_cached" /\ own /\ t.first = "none"
          /\ MappedNodes(M) \subseteq nodes
       THEN [t EXCEPT !.first = "execution_cached"]
  ELSE IF /\ event = "executed" /\ own /\ t.first = "executing"
          /\ nodes \subseteq MappedNodes(M) \ t.executed
       THEN [t EXCEPT !.executed = @ \cup nodes]
  ELSE OtherTrace

\* ---- actions ----

IdlePool ==
  /\ rev = RevWeight
  /\ mode = PICK_ZERO
  /\ clients = <<>>
  /\ clientStates = <<>>
  /\ jobQueue = <<>>
  /\ routineIdx = 0
  /\ poolPc = "pickJob"
  /\ job = NoJob
  /\ nSubmitted = 0
  /\ dispatched = <<>>
  /\ lastPick = NoPick
  /\ lateSubmit = FALSE
  /\ rr = NoRR
  /\ runs = <<>>
  /\ batchAll = NoBatch

IdleBypass ==
  /\ prompt = [workflow |-> <<>>, bypassNodes |-> <<>>]
  /\ workflow = <<>>
  /\ bypassIdx = 0
  /\ bypassPc = "idle"

IdleCall ==
  /\ mapOutputKeys = <<>>
  /\ cw = NewCallWrapper
  /\ srv = "none"
  /\ histOut = {}
  /\ trace = NoTrace
  /\ histMiss = FALSE

\* a step of run() or of a handler that meets no server answer
Step(w) ==
  /\ cw' = w
  /\ UNCHANGED <<mapOutputKeys, srv, histOut, trace, histMiss>>
  /\ UNCHANGED <<poolVars, bypassVars>>

\* a history record arrives: completed with the outputs of histOut, or not
History(w) ==
  /\ cw' = w
  /\ histMiss' = (histMiss \/ srv # "done")
  /\ UNCHANGED <<mapOutputKeys, srv, histOut, trace>>
  /\ UNCHANGED <<poolVars, bypassVars>>

\* a push of the client's socket, handled if its handler is subscribed
Push(event, own, nodes, w) ==
  /\ cw.promptId # 0
  /\ cw' = IF event \in cw.subs THEN w ELSE cw
  /\ trace' = NextTrace(trace, mapOutputKeys, event, own, nodes)
  /\ UNCHANGED <<mapOutputKeys, srv, histOut, histMiss>>
  /\ UNCHANGED <<poolVars, bypassVars>>

\* run() is called; bypassWorkflowNodes throws or enqueueJob reaches
\* `await appendPrompt`
Run(missingNode) ==
  /\ cw.pc = "idle"
  /\ Step(IF missingNode THEN enqueueJobMissingNode(cw)
          ELSE [cw EXCEPT !.pc = "appendPrompt"])

AppendPromptRejected ==
  /\ cw.pc = "appendPrompt"
  /\ Step(enqueueJobRejected(cw))

\* the server accepts the prompt and queues it, or loses it
AppendPromptResolved(lost) ==
  /\ cw.pc = "appendPrompt"
  /\ cw' = enqueueJobResolved(cw)
  /\ srv' = IF lost THEN "lost" ELSE "queued"
  /\ UNCHANGED <<mapOutputKeys, histOut, trace, histMiss>>
  /\ UNCHANGED <<poolVars, bypassVars>>

\* the server completes the prompt with outputs for the nodes outs
ServerFinish(outs) ==
  /\ srv = "queued"
  /\ srv' = "done"
  /\ histOut' = outs
  /\ UNCHANGED <<mapOutputKeys, cw, trace, histMiss>>
  /\ UNCHANGED <<poolVars, bypassVars>>

\* the prompt leaves the server's queue without a completed history record
ServerDrop ==
  /\ srv = "queued"
  /\ srv' = "dropped"
  /\ UNCHANGED <<mapOutputKeys, cw, histOut, trace, histMiss>>
  /\ UNCHANGED <<poolVars, bypassVars>>

PushDisconnected ==
  Push("disconnected", TRUE, {}, onFailedFn(cw, "DisconnectedError"))

PushExecuting(own) == Push("executing", own, {}, checkExecutingFn(cw, own))

PushExecutionCached(own, nodes) ==
  Push("execution_cached", own, nodes, checkExecutionCachedFn(cw, own, nodes))

PushStatus ==
  /\ "status" \in cw.subs => InFlight(cw) < MaxInFlight
  /\ Push("status", TRUE, {}, enter(cw, "getQueue"))

PushProgress(own) == Push("progress", own, {}, handleProgress(cw, own))

PushExecuted(own, node) ==
  Push("executed", own, {node}, executionHandler(cw, mapOutputKeys, own, node))

\* executedEnd takes no event: the push of any prompt is handled alike
PushExecutionSuccess(own) ==
  /\ "execution_success" \in cw.subs => InFlight(cw) < MaxInFlight
  /\ Push("execution_success", own, {}, executedEnd(cw))

PushExecutionError(own) ==
  Push("execution_error", own, {}, handleError(cw, own))

PushExecutionInterrupted(own) ==
  Push("execution_interrupted", own, {}, interruptionHandler(cw, own))

\* getQueue answers a status handler
GetQueueResolved ==
  /\ cw.statusHandlers.getQueue > 0
  /\ Step(statusHandlerQueue(cw, srv = "queued"))

\* getHistory answers the handleCachedOutput of a status handler
StatusHistoryResolved ==
  /\ cw.statusHandlers.getHistory > 0
  /\ History(statusHandlerHistory(cw,
       handleCachedOutputValue(mapOutputKeys, srv = "done", histOut)))

\* getHistory answers the handleCachedOutput of run()
CachedOutputResolved ==
  /\ cw.pc = "cachedOutputPromise"
  /\ History(runCachedOutput(cw, mapOutputKeys,
       handleCachedOutputValue(mapOutputKeys, srv = "done", histOut)))

\* getHistory answers an executedEnd
ExecutedEndHistoryResolved ==
  /\ cw.executedEnd > 0
  /\ History(executedEndHistory(cw, srv = "done", Cardinality(histOut)))

----------------------------------------------------------------------------
(* CallWrapper.bypassWorkflowNodes *)

\* An input value is written <<node, port>>: a reference to an output port
\* of a node, or, with no node, a literal.
Ref(node, port) == <<node, port>>
Literal(v) == <<"", v>>

\* The node definitions the server answers getNodeDefs with. output is the
\* list of the output types; required and optional hold the <<name, type>>
\* of the declared inputs. The class Custom is unknown to the server.
NodeDefs ==
  [Src     |-> [output |-> <<"T">>, required |-> {}, optional |-> {}],
   Pass    |-> [output |-> <<"T">>, required |-> {<<"x", "T">>},
                optional |-> {}],
   TwoOut  |-> [output |-> <<"T", "T">>, required |-> {<<"x", "T">>},
                optional |-> {}],
   TwoIn   |-> [output |-> <<"T", "T">>, required |-> {<<"x", "T">>},
                optional |-> {<<"y", "T">>}],
   NoMatch |-> [output |-> <<"U">>, required |-> {<<"x", "T">>},
                optional |-> {}],
   Sink    |-> [output |-> <<>>,
                required |-> {<<"in1", "T">>, <<"in2", "T">>},
                optional |-> {}]]

\* The workflows tried: A feeds B, B feeds C. A node is
\* [class_type, inputs], inputs being the <<name, value>> in entry order.
ANode == [class_type |-> "Src", inputs |-> <<>>]

BNodes ==
  {[class_type |-> c, inputs |-> << <<"x", v>> >>] :
     c \in {"Pass", "TwoOut", "NoMatch", "Custom"},
     v \in {Ref("A", 0), Literal(7)}}
  \cup
  {[class_type |-> "TwoIn", inputs |-> ins] :
     ins \in { << <<"x", Ref("A", 0)>>, <<"y", Literal(7)>> >>,
               << <<"y", Literal(7)>>, <<"x", Ref("A", 0)>> >>,
               << <<"y", Ref("A", 0)>> >> }}

CNodes ==
  {[class_type |-> "Sink", inputs |-> << <<"in1", v1>>, <<"in2", v2>> >>] :
     v1 \in {Ref("B", 0), Ref("B", 1), Ref("A", 0)},
     v2 \in {Ref("B", 0), Ref("B", 1), Ref("A", 0)}}

Workflows == {[A |-> ANode, B |-> b, C |-> c] : b \in BNodes, c \in CNodes}

\* the lists of nodes to bypass tried; no workflow has a node Z
BypassLists ==
  {<<>>, <<"B">>, <<"A", "B">>, <<"B", "A">>, <<"Z">>, <<"B", "Z">>}

\* def.input.required[inputName]?.[0] === outputType, or the same of optional
TypeMatches(def, inputName, outputType) ==
  \/ <<inputName, outputType>> \in def.required
  \/ <<inputName, outputType>> \in def.optional

\* the first input of the node, whatever output port took it before, that
\* matches the output type; 0 if there is none
FirstMatchAnyInput(def, inputs, connectedInputs, outputType) ==
  FindIndex([j \in 1..Len(inputs) |->
               TypeMatches(def, inputs[j][1], outputType)])

\* the first input of the node that no output port took yet and that matches
\* the output type; 0 if there is none
FirstMatch(def, inputs, connectedInputs, outputType) ==
  FindIndex([j \in 1..Len(inputs) |->
               /\ inputs[j][1] \notin connectedInputs
               /\ TypeMatches(def, inputs[j][1], outputType)])

\* The loop over def.output.entries(): connections is the Map from output
\* port to input value, as the set of its <<port, value>>.
RECURSIVE connect(_, _, _, _, _)
connect(def, inputs, outputIdx, connectedInputs, connections) ==
  IF outputIdx >= Len(def.output) THEN connections
  ELSE LET j == FirstMatch(def, inputs, connectedInputs,
                           def.output[outputIdx + 1])
       IN IF j = 0
          THEN connect(def, inputs, outputIdx + 1, connectedInputs,
                       connections)
          ELSE connect(def, inputs, outputIdx + 1,
                       connectedInputs \cup {inputs[j][1]},
                       connections \cup {<<outputIdx, inputs[j][2]>>})

\* (mutant) references whose port has no connection are left in place
rewireOrKeep(inputs, nodeId, connections) ==
  [i \in 1..Len(inputs) |->
     IF /\ inputs[i][2][1] = nodeId
        /\ \E c \in connections : c[1] = inputs[i][2][2]
     THEN <<inputs[i][1],
            (CHOOSE c \in connections : c[1] = inputs[i][2][2])[2]>>
     ELSE inputs[i]]

\* the inputs of one node after the references to nodeId are replaced by the
\* connection of their port, or deleted
rewire(inputs, nodeId, connections) ==
  LET kept == SelectSeq(inputs,
                LAMBDA e : \/ e[2][1] # nodeId
                           \/ \E c \in connections : c[1] = e[2][2])
  IN [i \in 1..Len(kept) |->
        IF kept[i][2][1] # nodeId THEN kept[i]
        ELSE <<kept[i][1],
               (CHOOSE c \in connections : c[1] = kept[i][2][2])[2]>>]

\* one pass of the loop of bypassWorkflowNodes, for a node of the workflow
\* whose class has a definition
bypassNode(wf, nodeId) ==
  LET def == NodeDefs[wf[nodeId].class_type]
      connections == connect(def, wf[nodeId].inputs, 0, {}, {})
  IN [n \in DOMAIN wf \ {nodeId} |->
        [wf[n] EXCEPT !.inputs = rewire(@, nodeId, connections)]]

\* ---- actions ----

\* (mutant) no copy: the object itself
structuredCloneSame(object) == object

\* structuredClone(object): a new object that shares nothing with the one it
\* copies. Objects are named; "prompt.workflow" is the one the caller's
\* PromptBuilder holds.
structuredClone(object) == "clone"

\* A step of enqueueJob: its local `workflow` becomes wf. The writes go to
\* the object the local names, so they reach the PromptBuilder's workflow
\* exactly when the local names that object. When bypassWorkflowNodes
\* throws, enqueueJob returns no job and run() returns.
BypassStep(pc, wf, idx) ==
  /\ bypassPc' = pc
  /\ workflow' = wf
  /\ bypassIdx' = idx
  /\ prompt' = IF structuredClone("prompt.workflow") = "prompt.workflow"
               THEN [prompt EXCEPT !.workflow = wf]
               ELSE prompt
  /\ cw' = IF pc = "MissingNodeError" THEN enqueueJobMissingNode(cw)
           ELSE IF pc = "appendPrompt" THEN [cw EXCEPT !.pc = "appendPrompt"]
           ELSE cw
  /\ UNCHANGED <<mapOutputKeys, srv, histOut, trace, histMiss>>
  /\ UNCHANGED poolVars

\* enqueueJob clones the workflow and, with nodes to bypass, calls
\* bypassWorkflowNodes
enqueueJob ==
  /\ bypassPc = "enqueueJob"
  /\ BypassStep(IF Len(prompt.bypassNodes) > 0 THEN "bypassWorkflowNodes"
                ELSE "appendPrompt",
                prompt.workflow, 1)

\* one pass of the loop of bypassWorkflowNodes; a MissingNodeError ends
\* enqueueJob with no job
bypassWorkflowNodes ==
  /\ bypassPc = "bypassWorkflowNodes"
  /\ bypassIdx <= Len(prompt.bypassNodes)
  /\ LET nodeId == prompt.bypassNodes[bypassIdx]
     IN IF \/ nodeId \notin DOMAIN workflow
           \/ workflow[nodeId].class_type \notin DOMAIN NodeDefs
        THEN BypassStep("MissingNodeError", workflow, bypassIdx)
        ELSE BypassStep(bypassPc, bypassNode(workflow, nodeId),
                        bypassIdx + 1)

\* bypassWorkflowNodes returns the workflow, which enqueueJob submits
appendPrompt ==
  /\ bypassPc = "bypassWorkflowNodes"
  /\ bypassIdx > Len(prompt.bypassNodes)
  /\ BypassStep("appendPrompt", workflow, bypassIdx)

\* the clientFilter arguments tried
ClientFilters ==
  {[include |-> {}, exclude |-> {}],
   [include |-> {"a"}, exclude |-> {}],
   [include |-> {}, exclude |-> {"a"}],
   [include |-> {"b"}, exclude |-> {"b"}]}

\* the explicit weights tried
Weights == {1, 3, 5}

Clients == 1..Len(clientStates)

Pushes ==
  \E i \in Clients :
    \/ \E q \in 0..MaxQueueRemaining : status(i, q)
    \/ disconnected(i)
    \/ reconnected(i)
    \/ execution_success(i)
    \/ execution_error(i)

\* The pool under every policy, two clients, jobs with and without filter.
Init == InitPool(ClientIds) /\ IdleCall /\ IdleBypass

Next ==
  \/ \E f \in ClientFilters : RunDefault(f.include, f.exclude)
  \/ \E m \in EQueueMode : changeMode(m)
  \/ pickJob
  \/ retry
  \/ Pushes

Spec == Init /\ [][Next]_vars

\* The weighted queue: one client, jobs with explicit weights.
InitQueue == InitPool(QueueClientIds) /\ IdleCall /\ IdleBypass

NextQueue ==
  \/ \E w \in Weights : RunWeighted(w)
  \/ pickJob
  \/ retry
  \/ Pushes

SpecQueue == InitQueue /\ [][NextQueue]_vars

\* The queue with every job numbered: one client, jobs with and without
\* explicit weight, submitted before and after dequeues.
InitOrder == InitPool(QueueClientIds) /\ IdleCall /\ IdleBypass

NextOrder ==
  \/ RunFollowed(FALSE, 0, {}, {})
  \/ \E w \in {1, 2} : RunFollowed(TRUE, w, {}, {})
  \/ pickJob
  \/ retry
  \/ Pushes

SpecOrder == InitOrder /\ [][NextOrder]_vars

\* The promises: two clients that report an empty queue, one batch, single
\* runs with and without filter, jobs that return and jobs that throw.
NextRun ==
  \/ \E n \in 1..MaxBatch : batch(n)
  \/ \E f \in {c \in ClientFilters : c.include = {} \/ c.exclude = {}} :
       /\ nSubmitted < MaxBatch
       /\ RunFollowed(FALSE, 0, f.include, f.exclude)
  \/ \E k \in DOMAIN runs : \E ok \in BOOLEAN : jobSettled(k, ok)
  \/ pickJob
  \/ retry
  \/ \E i \in Clients :
       \/ status(i, 0)
       \/ disconnected(i)
       \/ reconnected(i)
       \/ execution_success(i)
       \/ execution_error(i)

SpecRun == Init /\ [][NextRun]_vars

\* SpecRun with the dispatch loop running on: the constructor starts pickJob,
\* which calls itself after every dispatch, and the timer of
\* `await delay(20)` in getAvailableClient always fires.
SpecRunFair ==
  Init /\ [][NextRun]_vars /\ WF_vars(pickJob) /\ WF_vars(retry)

\* Removal: two clients that report an empty queue and may be removed while
\* jobs wait or run.
NextRemove ==
  \/ /\ nSubmitted < MaxBatch
     /\ RunFollowed(FALSE, 0, {}, {})
  \/ \E k \in DOMAIN runs : \E ok \in BOOLEAN : jobSettled(k, ok)
  \/ pickJob
  \/ retry
  \/ \E i \in Clients :
       \/ status(i, 0)
       \/ execution_success(i)
       \/ removeClientByIndex(i - 1)
  \/ \E c \in Range(ClientIds) : removeClient(c)

SpecRemove == Init /\ [][NextRemove]_vars

\* Round robin: a pool constructed with PICK_ROUTINE over three clients,
\* jobs without filter. Queue depth plays no part in this policy, so the
\* status pushes all report an empty queue.
InitRoutine == InitPool(RoutineClientIds) /\ mode = PICK_ROUTINE /\ IdleCall /\ IdleBypass

NextRoutine ==
  \/ RunDefault({}, {})
  \/ pickJob
  \/ retry
  \/ \E i \in Clients :
       \/ status(i, 0)
       \/ disconnected(i)
       \/ reconnected(i)
       \/ execution_success(i)
       \/ execution_error(i)

SpecRoutine == InitRoutine /\ [][NextRoutine]_vars

\* One run() of a CallWrapper against a client whose pushes and answers
\* arrive in any order.
InitCall ==
  /\ IdlePool
  /\ IdleBypass
  /\ mapOutputKeys \in OutputMappings
  /\ cw = NewCallWrapper
  /\ srv = "none"
  /\ histOut = {}
  /\ trace = NoTrace
  /\ histMiss = FALSE

NextCall ==
  \/ \E missingNode \in BOOLEAN : Run(missingNode)
  \/ AppendPromptRejected
  \/ \E lost \in BOOLEAN : AppendPromptResolved(lost)
  \/ \E outs \in SUBSET Nodes : ServerFinish(outs)
  \/ ServerDrop
  \/ PushDisconnected
  \/ \E own \in BOOLEAN : PushExecuting(own)
  \/ \E own \in BOOLEAN, nodes \in SUBSET Nodes : PushExecutionCached(own, nodes)
  \/ PushStatus
  \/ \E own \in BOOLEAN : PushProgress(own)
  \/ \E own \in BOOLEAN, node \in Nodes : PushExecuted(own, node)
  \/ \E own \in BOOLEAN : PushExecutionSuccess(own)
  \/ \E own \in BOOLEAN : PushExecutionError(own)
  \/ \E own \in BOOLEAN : PushExecutionInterrupted(own)
  \/ GetQueueResolved
  \/ StatusHistoryResolved
  \/ CachedOutputResolved
  \/ ExecutedEndHistoryResolved

SpecCall == InitCall /\ [][NextCall]_vars

\* SpecCall in which every fetch of run() and of its handlers (getQueue,
\* getHistory) is answered.
SpecCallFair ==
  /\ InitCall
  /\ [][NextCall]_vars
  /\ WF_vars(GetQueueResolved)
  /\ WF_vars(StatusHistoryResolved)
  /\ WF_vars(CachedOutputResolved)
  /\ WF_vars(ExecutedEndHistoryResolved)

\* A pool of one client under PICK_ZERO whose job is
\* `(client) => new CallWrapper(client, prompt).run()`: the run starts when
\* the dispatch loop invokes the job, and the pushes of the client reach the
\* handlers of the pool as well as those of the run. The client stays
\* connected.
InitLock ==
  /\ InitPool(QueueClientIds)
  /\ mode = PICK_ZERO
  /\ IdleBypass
  /\ mapOutputKeys \in OutputMappings
  /\ cw = NewCallWrapper
  /\ srv = "none"
  /\ histOut = {}
  /\ trace = NoTrace
  /\ histMiss = FALSE

\* the pool's handler of the execution_success push the server sends when it
\* has completed the prompt
PoolExecutionSuccess == srv = "done" /\ execution_success(1)

\* the pool's handler of the execution_error push that the run has handled
PoolExecutionError ==
  /\ \E k \in DOMAIN cw.onFailed : cw.onFailed[k] = "CustomEventError"
  /\ execution_error(1)

NextLock ==
  \/ /\ nSubmitted < 1
     /\ RunFollowed(FALSE, 0, {}, {})
  \/ pickJob
  \/ retry
  \/ \E q \in 0..MaxQueueRemaining : status(1, q)
  \/ PoolExecutionSuccess
  \/ PoolExecutionError
  \/ /\ cw.result # Unsettled
     /\ jobSettled(1, TRUE)
  \/ /\ runs # <<>>
     /\ runs[1].invoked = 1
     /\ \/ \E missingNode \in BOOLEAN : Run(missingNode)
        \/ AppendPromptRejected
        \/ \E lost \in BOOLEAN : AppendPromptResolved(lost)
        \/ \E outs \in SUBSET Nodes : ServerFinish(outs)
        \/ ServerDrop
        \/ PushExecuting(TRUE)
        \/ \E nodes \in SUBSET Nodes : PushExecutionCached(TRUE, nodes)
        \/ PushStatus
        \/ PushProgress(TRUE)
        \/ \E node \in Nodes : PushExecuted(TRUE, node)
        \/ PushExecutionSuccess(TRUE)
        \/ PushExecutionError(TRUE)
        \/ PushExecutionInterrupted(TRUE)
        \/ GetQueueResolved
        \/ StatusHistoryResolved
        \/ CachedOutputResolved
        \/ ExecutedEndHistoryResolved

\* The dispatch loop runs on, the server finishes a prompt it has queued
\* unless it drops it, and the pushes it sends reach the pool.
SpecLock ==
  /\ InitLock
  /\ [][NextLock]_vars
  /\ WF_vars(pickJob)
  /\ WF_vars(retry)
  /\ WF_vars(\E outs \in SUBSET Nodes : ServerFinish(outs))
  /\ WF_vars(PoolExecutionSuccess)
  /\ WF_vars(PoolExecutionError)

\* enqueueJob on every workflow and list of nodes to bypass tried
InitBypass ==
  /\ IdlePool
  /\ IdleCall
  /\ prompt \in [workflow : Workflows, bypassNodes : BypassLists]
  /\ workflow = <<>>
  /\ bypassIdx = 0
  /\ bypassPc = "enqueueJob"

NextBypass ==
  \/ enqueueJob
  \/ bypassWorkflowNodes
  \/ appendPrompt

SpecBypass == InitBypass /\ [][NextBypass]_vars

----------------------------------------------------------------------------
(* Properties of the pool *)

\* C1: jobs that were all enqueued before the dispatch loop dequeued any of
\* them are dispatched in ascending weight order, and jobs of equal weight in
\* submission order.
C1_DispatchOrder ==
  ~lateSubmit =>
    \A i, k \in 1..Len(dispatched) :
      i < k =>
        \/ dispatched[i].weight < dispatched[k].weight
        \/ /\ dispatched[i].weight = dispatched[k].weight
           /\ dispatched[i].id < dispatched[k].id

\* Weights [5,1,5,3] were submitted in this order and all four jobs were
\* dispatched: 1, 3, the first 5, the second 5.
C1_Witness ==
  /\ ~lateSubmit
  /\ [i \in 1..Len(dispatched) |-> <<dispatched[i].id, dispatched[i].weight>>]
       = << <<2, 1>>, <<4, 3>>, <<1, 5>>, <<3, 5>> >>

\* C2: under PICK_ZERO the client selected (locked and given the job) has its
\* last recorded queueRemaining equal to 0.
C2_ZeroQueueOnly ==
  lastPick.mode = PICK_ZERO => lastPick.queueRemaining = 0

\* A PICK_ZERO selection that passed over an online, unlocked client with a
\* non-empty queue.
C2_Witness ==
  /\ lastPick.mode = PICK_ZERO
  /\ lastPick.client = 2
  /\ clientStates[1].online /\ ~clientStates[1].locked
  /\ clientStates[1].queueRemaining # 0

\* C3: under every policy, a client whose online flag is false is never
\* selected, also when every client of the pool is offline.
C3_OfflineNeverSelected ==
  lastPick # NoPick => lastPick.online

\* C4: under PICK_ROUTINE with a fixed set of eligible clients and jobs
\* without filter, successive dispatches go to the eligible clients in cyclic
\* index order; with 3 eligible clients and 6 jobs each client gets two.
NthOf(E, k) == CHOOSE x \in E : Cardinality({y \in E : y < x}) = k - 1

Count(s, e) == Cardinality({i \in 1..Len(s) : s[i] = e})

C13_DefaultWeightFifo ==
  \A i, k \in 1..Len(dispatched) :
    (i < k /\ ~dispatched[i].explicit /\ ~dispatched[k].explicit)
    => dispatched[i].id < dispatched[k].id

\* C14: the jobQueue is sorted by non-decreasing weight, and of two entries
\* of equal weight the one submitted earlier is nearer the front.
C14_QueueSorted ==
  \A i, k \in 1..Len(jobQueue) :
    i < k =>
      \/ jobQueue[i].weight < jobQueue[k].weight
      \/ /\ jobQueue[i].weight = jobQueue[k].weight
         /\ jobQueue[i].id < jobQueue[k].id

\* After a dequeue the queue holds two entries of equal weight in submission
\* order, followed by a heavier entry submitted before the second of them.
C14_Witness ==
  /\ Len(dispatched) >= 1
  /\ Len(jobQueue) = 3
  /\ jobQueue[1].weight = jobQueue[2].weight
  /\ jobQueue[1].id < jobQueue[2].id
  /\ jobQueue[2].weight < jobQueue[3].weight
  /\ jobQueue[3].id < jobQueue[2].id

\* C15: the promise of batch(jobs) is fulfilled only with the array of the
\* jobs' return values in the order of jobs, once every job has returned,
\* and it is rejected, with the error of the job that failed first, from
\* the moment one job has failed.
C15_BatchInOrder ==
  LET ids == batchAll.jobs
      p == batchAll.promise
      failed == {k \in Range(ids) : runs[k].promise.state = "rejected"}
  IN /\ p.state = "fulfilled" =>
          /\ ids # <<>>
          /\ \A k \in Range(ids) : runs[k].events = <<"executing", "executed">>
          /\ p.value = [i \in 1..Len(ids) |-> ids[i]]
     /\ p.state = "rejected" <=> failed # {}
     /\ p.state = "rejected" =>
          /\ p.value \in failed
          /\ \A i \in 1..Len(batchAll.settled) :
               batchAll.settled[i] \in failed =>
                 \E h \in 1..i : batchAll.settled[h] = p.value
     /\ (ids # <<>> /\ failed = {} /\
         \A k \in Range(ids) : runs[k].promise.state = "fulfilled")
        => p.state = "fulfilled"

\* A batch of two jobs run by different clients, the second of which
\* returned first, is fulfilled.
C15_Witness ==
  /\ batchAll.promise.state = "fulfilled"
  /\ Len(batchAll.jobs) = 2
  /\ batchAll.settled = <<batchAll.jobs[2], batchAll.jobs[1]>>
  /\ runs[batchAll.jobs[1]].client # runs[batchAll.jobs[2]].client

\* C16: run(job) calls job once, with the client that was selected and the
\* position of that client in the pool; the pool dispatches "executing"
\* before the call and then one of "executed" and "execution_error"; the
\* promise is fulfilled with what the job returned or rejected with what it
\* threw (job k returns or throws k).
C16_RunOnce ==
  /\ \A k \in DOMAIN runs :
       LET r == runs[k]
       IN /\ r.invoked <= 1
          /\ r.events \in {<<>>, <<"executing">>,
                           <<"executing", "executed">>,
                           <<"executing", "execution_error">>}
          /\ r.invoked = 1 <=> r.events # <<>>
          /\ r.invoked = 1 =>
               /\ r.clientIdx + 1 \in DOMAIN clientStates
               /\ clientStates[r.clientIdx + 1].id = r.client
               /\ \E i \in 1..Len(dispatched) : dispatched[i].id = k
          /\ r.promise.state = "pending" <=> Len(r.events) < 2
          /\ r.promise.state = "fulfilled" <=>
               r.events = <<"executing", "executed">>
          /\ r.promise.state = "rejected" <=>
               r.events = <<"executing", "execution_error">>
          /\ r.promise.state # "pending" => r.promise.value = k
  /\ (lastPick # NoPick /\ dispatched # <<>>) =>
       LET last == dispatched[Len(dispatched)]
       IN last.id \in DOMAIN runs =>
            /\ runs[last.id].events = <<"executing">>
            /\ runs[last.id].clientIdx + 1 = lastPick.client
            /\ (rev = RevFilter /\ last.include # {}) =>
                 runs[last.id].client \in last.include
            /\ (rev = RevFilter /\ last.include = {}) =>
                 runs[last.id].client \notin last.exclude

\* One run was fulfilled by the second client of the pool, which was the only
\* client its filter accepted, and another was rejected.
C16_Witness ==
  \E k, h \in DOMAIN runs :
    /\ runs[k].promise = [state |-> "fulfilled", value |-> k]
    /\ runs[k].clientIdx = 1
    /\ runs[k].client = "b"
    /\ \E i \in 1..Len(dispatched) :
         dispatched[i].id = k /\ dispatched[i].exclude = {"a"}
    /\ runs[h].promise = [state |-> "rejected", value |-> h]
    /\ runs[h].events = <<"executing", "execution_error">>

\* C17: a status push of client i clears its locked flag exactly when the
\* policy is not PICK_ZERO; under PICK_ZERO it sets online and queueRemaining
\* and leaves locked, and it changes no other client.
C17_StatusUnlocksUnlessPickZero ==
  [][\A i \in 1..Len(clientStates) : \A q \in 0..MaxQueueRemaining :
       status(i, q) =>
         clientStates' =
           [clientStates EXCEPT
              ![i] = [id |-> clientStates[i].id,
                      online |-> TRUE,
                      queueRemaining |-> q,
                      locked |-> mode = PICK_ZERO /\ clientStates[i].locked]]
    ]_vars

\* Under PICK_ZERO a client that was locked by a dispatch reports a running
\* prompt and is still locked.
C17_Witness ==
  /\ mode = PICK_ZERO
  /\ lastPick = NoPick
  /\ \E i \in 1..Len(clientStates) :
       /\ clientStates[i].locked
       /\ clientStates[i].online
       /\ clientStates[i].queueRemaining = 1

\* C18: an execution_success or execution_error push of client i clears its
\* locked flag under every policy and changes nothing else in clientStates.
C18_CompletionUnlocks ==
  [][\A i \in 1..Len(clientStates) :
       (execution_success(i) \/ execution_error(i)) =>
         /\ ~clientStates'[i].locked
         /\ clientStates'[i].online = clientStates[i].online
         /\ clientStates'[i].queueRemaining = clientStates[i].queueRemaining
         /\ \A k \in 1..Len(clientStates) :
              k # i => clientStates'[k] = clientStates[k]
    ]_vars

\* Under PICK_ZERO, where no status push unlocks, a client that was given a
\* job is online and unlocked while the other client is still locked.
C18_Witness ==
  /\ mode = PICK_ZERO
  /\ lastPick = NoPick
  /\ Len(clientStates) = 2
  /\ clientStates[1].online /\ ~clientStates[1].locked
  /\ clientStates[1].queueRemaining = 1
  /\ clientStates[2].online /\ clientStates[2].locked

\* C19: a disconnected push leaves the client offline and unlocked, a
\* reconnected push online and unlocked, and a client that is offline with a
\* known running prompt (it was connected and then disconnected, with no
\* status or reconnected push since) is not selected.
C19_DisconnectedNotSelected ==
  [][\A i \in 1..Len(clientStates) :
       /\ disconnected(i) =>
            clientStates' = [clientStates EXCEPT ![i].online = FALSE,
                                                 ![i].locked = FALSE]
       /\ reconnected(i) =>
            clientStates' = [clientStates EXCEPT ![i].online = TRUE,
                                                 ![i].locked = FALSE]
       /\ (~clientStates[i].online /\ clientStates[i].queueRemaining > 0) =>
            ~(lastPick' # NoPick /\ lastPick'.client = i)
    ]_vars

C24_LowestQueueFirst ==
  [][(lastPick' # NoPick /\ mode = PICK_LOWEST) =>
       LET j == IF poolPc = "getAvailableClient" /\ job # NoJob
                THEN job[1] ELSE Head(jobQueue)
           eligible == {i \in 1..Len(clientStates) :
                          /\ clientStates[i].online
                          /\ j.include # {} => clientStates[i].id \in j.include
                          /\ j.include = {} =>
                               clientStates[i].id \notin j.exclude}
           picked == lastPick'.client
       IN /\ picked \in eligible
          /\ \A i \in eligible :
               /\ clientStates[i].queueRemaining
                    >= clientStates[picked].queueRemaining
               /\ i < picked =>
                    clientStates[i].queueRemaining
                      > clientStates[picked].queueRemaining
    ]_vars

\* C25: while two jobs run on the same client, the lock the dispatch loop
\* took for the one dispatched later is not cleared by the completion push
\* of the one dispatched earlier (the client completes its prompts in the
\* order it received them, so the first completion push is the earlier
\* job's).
C25_LockOfNewerJobKept ==
  [][\A i \in 1..Len(clientStates) : \A h, k \in DOMAIN runs :
       (/\ runs[h].events = <<"executing">>
        /\ runs[k].events = <<"executing">>
        /\ runs[h].clientIdx = i - 1
        /\ runs[k].clientIdx = i - 1
        /\ \E m, n \in 1..Len(dispatched) :
             m < n /\ dispatched[m].id = h /\ dispatched[n].id = k
        /\ clientStates[i].locked
        /\ (execution_success(i) \/ execution_error(i)))
       => clientStates'[i].locked
    ]_vars

\* C26: clients and clientStates stay index-aligned; a job is only ever
\* handed to a client that is in the pool at that moment, with its index;
\* and a removal changes no promise, so that the job of a removed client
\* still settles.
C26_RemovedNeverSelected ==
  [][/\ Len(clients') = Len(clientStates')
     /\ \A i \in 1..Len(clients') : clientStates'[i].id = clients'[i]
     /\ \A k \in DOMAIN runs :
          (runs[k].invoked = 0 /\ runs'[k].invoked = 1) =>
            /\ runs'[k].client \in Range(clients)
            /\ clients[runs'[k].clientIdx + 1] = runs'[k].client
     /\ clients' # clients => (runs' = runs /\ batchAll' = batchAll)
     /\ \A k \in DOMAIN runs :
          (runs[k].events = <<"executing">>
           /\ runs[k].client \notin Range(clients)
           /\ runs'[k] # runs[k]) =>
            /\ runs'[k].promise.state \in {"fulfilled", "rejected"}
            /\ runs'[k].promise.value = k
    ]_vars

\* The job that ran on a was fulfilled after a was removed, and the next job
\* went to b, now the first client of the pool.
C26_Witness ==
  /\ clients = <<"b">>
  /\ Len(runs) = 2
  /\ runs[1].client = "a"
  /\ runs[1].promise = [state |-> "fulfilled", value |-> 1]
  /\ runs[2].client = "b"
  /\ runs[2].clientIdx = 0
  /\ runs[2].events = <<"executing">>

\* C29: on the step that locks a client and invokes a job, no job waiting
\* in the pool (in the queue, or taken from it and not yet invoked) has a
\* strictly smaller weight than the invoked job, or the same weight and an
\* earlier submission.
C29_LowestWeightDispatched ==
  [][\A j \in Range(jobQueue) \cup Range(job) :
       (runs[j.id].invoked = 0 /\ runs'[j.id].invoked = 1)
         => \A q \in Range(jobQueue) \cup Range(job) :
              \/ q.weight > j.weight
              \/ q.weight = j.weight /\ q.id >= j.id
    ]_vars

\* the job numbered id is waiting (in the queue, or taken from it by the
\* dispatch loop) and client i is online, unlocked, with queueRemaining 0
\* and accepted by the job's filter
PendingEligible(id, i) ==
  \E j \in Range(jobQueue) \cup Range(job) :
    /\ j.id = id
    /\ i \in 1..Len(clientStates)
    /\ clientStates[i].online
    /\ ~clientStates[i].locked
    /\ clientStates[i].queueRemaining = 0
    /\ IF j.include # {} THEN clientStates[i].id \in j.include
       ELSE clientStates[i].id \notin j.exclude

\* C32: under each policy, a pending job for which from some point on a
\* client stays online, unlocked, with queueRemaining 0 and accepted by its
\* filter is eventually dispatched.
C32_EventuallyDispatched ==
  \A p \in (1..MaxBatch) \X (1..Len(ClientIds)) :
    <>[]PendingEligible(p[1], p[2])
      => <>(p[1] \in DOMAIN runs /\ runs[p[1]].invoked = 1)

\* C33: under PICK_ROUTINE every selection attempt leaves routineIdx a
\* non-negative integer, below the number of clients eligible for the job
\* of the attempt (online and accepted by its filter) when there is one.
C33_CursorBelowEligible ==
  [][(mode = PICK_ROUTINE /\ (pickJob \/ retry))
     => LET j == IF poolPc = "getAvailableClient" /\ rev = RevFilter
                 THEN job[1] ELSE Head(jobQueue)
            n == Len(acceptedClients(clientStates, j.include, j.exclude))
        IN /\ routineIdx' # NaN
           /\ routineIdx' >= 0
           /\ n > 0 => routineIdx' < n
    ]_vars

\* C34: under every policy the client a job is dispatched to was not
\* locked when it was selected.
C34_LockedNeverSelected ==
  lastPick # NoPick => ~lastPick.locked

----------------------------------------------------------------------------
(* Properties of CallWrapper.run *)

DistinctNodes(M) == \A i, j \in 1..Len(M) : M[i][2] = M[j][2] => i = j

\* the map holding, for every key of M, the output of its node
FullOutput(M) == ValOutput(mapOutput(M, MappedNodes(M)))

\* C5: for a mapping M with distinct node ids, once the pushes delivered
\* since the submission are an executing push of the job followed by exactly
\* one executed push for each mapped node, and the history check of run() has
\* been answered, run() has resolved with a map of exactly the keys of M,
\* each key holding the output of its node.
C5_ExecutedOutputsResolve ==
  (/\ DistinctNodes(mapOutputKeys)
   /\ trace.first = "executing"
   /\ ~trace.status
   /\ trace.executed = MappedNodes(mapOutputKeys)
   /\ srv \in {"queued", "done"}
   /\ srv = "done" => MappedNodes(mapOutputKeys) \subseteq histOut
   /\ cw.pc # "cachedOutputPromise")
  => cw.result = FullOutput(mapOutputKeys)

\* C6: when an execution_cached push of the job naming every mapped node came
\* before any executing push and every history fetch returned the completed
\* record, the finished callback is invoked at most once and no failure is
\* reported, and a run() that has resolved has resolved with the outputs
\* mapped from history after exactly one finished callback, whatever status
\* pushes came.
C6_CachedFinishedOnce ==
  (/\ trace.first = "execution_cached"
   /\ srv = "done"
   /\ MappedNodes(mapOutputKeys) \subseteq histOut
   /\ ~histMiss)
  => /\ cw.onFinished <= 1
     /\ cw.onFailed = <<>>
     /\ cw.result # Unsettled =>
          /\ cw.result = FullOutput(mapOutputKeys)
          /\ cw.onFinished = 1

\* C7: when the prompt never is in a queue snapshot and never has a completed
\* history record, and only status pushes arrive, the failure callback is
\* invoked at most once, with WentMissingError, and a run() that has resolved
\* has resolved false after that one invocation.
C7_WentMissingOnce ==
  (srv = "lost" /\ trace.first = "none")
  => /\ cw.onFailed \in {<<>>, <<"WentMissingError">>}
     /\ cw.result # Unsettled =>
          /\ cw.result = ValFalse
          /\ cw.onFailed = <<"WentMissingError">>

\* jobDonePromise is settled or run() has returned
Terminal == cw.jobDone # Unsettled \/ cw.result # Unsettled

\* C8: once the run has reached a terminal outcome no push handler of the
\* job is subscribed, so that no push delivered afterwards is handled.
C8_NoHandlerAfterTerminal == Terminal => cw.subs = {}

\* C10: the step in which appendPrompt rejects leaves run() resolved false
\* and the failure callback invoked exactly once, with EnqueueFailedError.
C10_SubmitFailedOnce ==
  [][AppendPromptRejected =>
       /\ cw'.result = ValFalse
       /\ cw'.onFailed = <<"EnqueueFailedError">>]_vars

\* C11: the step that delivers an execution_error or execution_interrupted
\* push of the job to a run that is submitted, not yet settled and has
\* reported no failure leaves run() resolved false and the failure callback
\* invoked once, with CustomEventError or ExecutionInterruptedError
\* respectively, in whatever phase the run is.
C11_ErrorPushFails ==
  [][(cw.promptId # 0 /\ ~Terminal /\ cw.onFailed = <<>>) =>
       /\ PushExecutionError(TRUE) =>
            /\ cw'.result = ValFalse
            /\ cw'.onFailed = <<"CustomEventError">>
       /\ PushExecutionInterrupted(TRUE) =>
            /\ cw'.result = ValFalse
            /\ cw'.onFailed = <<"ExecutionInterruptedError">>]_vars

\* C12: a run whose first reported failure is DisconnectedError has resolved
\* false, reports no other outcome and does not complete.
C12_DisconnectedFails ==
  (cw.onFailed # <<>> /\ cw.onFailed[1] = "DisconnectedError")
  => /\ cw.result = ValFalse
     /\ cw.onFailed = <<"DisconnectedError">>
     /\ cw.onFinished = 0

\* C27: when the first push of the prompt was an execution_cached naming
\* every mapped node, no status push came, and the history fetched by run()
\* holds no completed record, run() resolves false and the failure callback
\* gets FailedCacheError.
C27_CacheHitWithoutRecordFails ==
  [][(/\ trace # OtherTrace
      /\ trace.first = "execution_cached"
      /\ ~trace.status
      /\ srv # "done"
      /\ CachedOutputResolved)
     => /\ cw'.result = ValFalse
        /\ cw'.pc = "returned"
        /\ cw'.onFailed = <<"FailedCacheError">>
    ]_vars

\* C28: when the history fetched after an execution_success push that found
\* outputs missing holds a completed record with as many outputs as
\* expected, run() resolves with the outputs; otherwise it resolves false
\* and the failure callback gets ExecutionFailedError.
C28_SuccessPushReconciles ==
  [][(/\ ~Terminal
      /\ cw.executedEnd = 1
      /\ cw.onFailed = <<>>
      /\ ExecutedEndHistoryResolved)
     => IF srv = "done" /\ Cardinality(histOut) = cw.totalOutput
        THEN /\ cw'.result.kind = "output"
             /\ cw'.onFailed = <<>>
        ELSE /\ cw'.result = ValFalse
             /\ cw'.onFailed = <<"ExecutionFailedError">>
    ]_vars

\* C31: the start callback is invoked at most once, and once the run has
\* handled an executed push of its own prompt it has been invoked: the first
\* such push invokes it.
C31_StartOnFirstExecuted ==
  [][/\ cw'.onStart <= 1
     /\ \A node \in Nodes :
          ("executed" \in cw.subs /\ PushExecuted(TRUE, node))
            => cw'.onStart = 1
    ]_vars

\* C35: under PICK_ZERO, when the run of the job that a client was locked
\* for has reached a terminal outcome and the client is still locked, the
\* client is eventually unlocked.
C35_LockReleasedAfterJob ==
  [](( /\ mode = PICK_ZERO
       /\ runs # <<>>
       /\ runs[1].invoked = 1
       /\ cw.result # Unsettled
       /\ clientStates[1].locked)
     => <>(~clientStates[1].locked))

\* C36: once a run whose prompt was submitted has invoked the finished
\* callback or the failure callback, run() eventually resolves.
C36_CallbackThenResolved ==
  [](( /\ cw.promptId # 0
       /\ (cw.onFinished > 0 \/ cw.onFailed # <<>>))
     => <>(cw.result # Unsettled))

\* C37: a push that carries the promptId of another job (executing,
\* execution_cached, executed, progress, execution_success, execution_error
\* or execution_interrupted) changes nothing of this run: no field, no
\* promise, no callback count.
C37_ForeignPushIgnored ==
  [][(\/ PushExecuting(FALSE)
      \/ \E nodes \in SUBSET Nodes : PushExecutionCached(FALSE, nodes)
      \/ PushProgress(FALSE)
      \/ \E node \in Nodes : PushExecuted(FALSE, node)
      \/ PushExecutionSuccess(FALSE)
      \/ PushExecutionError(FALSE)
      \/ PushExecutionInterrupted(FALSE))
     => cw' = cw
    ]_vars

\* C38: in every state of a run the finished callback has been invoked at
\* most once, and never both the finished callback and the failure callback.
C38_CallbacksExclusive ==
  /\ cw.onFinished <= 1
  /\ ~(cw.onFinished > 0 /\ cw.onFailed # <<>>)

\* C39: when an executed push resolves run() with the map collected from
\* executed pushes, the map holds a value for every key of mapOutputKeys;
\* remainingOutput never is below 0.
C39_CompleteOutputMap ==
  [][/\ cw'.remainingOutput >= 0
     /\ \A node \in Nodes :
          (/\ PushExecuted(TRUE, node)
           /\ cw.result = Unsettled
           /\ cw'.result.kind = "output")
          => {p[1] : p \in cw'.result.out}
               = {mapOutputKeys[i][1] : i \in 1..Len(mapOutputKeys)}
    ]_vars

----------------------------------------------------------------------------
(* Properties of CallWrapper.bypassWorkflowNodes *)

\* the values the input `name` of node c has in the workflow wf
InputValues(wf, c, name) ==
  {wf[c].inputs[i][2] :
     i \in {j \in 1..Len(wf[c].inputs) : wf[c].inputs[j][1] = name}}

\* the inputs of a node whose declared type is the type of output port p
MatchingInputs(def, inputs, p) ==
  IF p >= Len(def.output) THEN {}
  ELSE {j \in 1..Len(inputs) :
          TypeMatches(def, inputs[j][1], def.output[p + 1])}

\* how many output ports up to p have the type of port p
PortRank(def, p) ==
  Cardinality({q \in 0..p : def.output[q + 1] = def.output[p + 1]})

\* the list of nodes to bypass is one node of the workflow that the server
\* has a definition of
BypassOne ==
  /\ Len(prompt.bypassNodes) = 1
  /\ prompt.bypassNodes[1] \in DOMAIN prompt.workflow
  /\ prompt.workflow[prompt.bypassNodes[1]].class_type \in DOMAIN NodeDefs

\* C9 as stated: bypassing B raises no error and removes B from the
\* submitted workflow; an input of C that referenced (B, p) holds the value
\* of an input of B whose declared type is the type of port p if B has such
\* an input, and is deleted if B has none.
C9_RewiredIfTypeMatches ==
  BypassOne =>
    LET B == prompt.bypassNodes[1]
        def == NodeDefs[prompt.workflow[B].class_type]
        inputs == prompt.workflow[B].inputs
    IN /\ bypassPc # "MissingNodeError"
       /\ bypassPc = "appendPrompt" =>
            /\ B \notin DOMAIN workflow
            /\ \A C \in DOMAIN prompt.workflow \ {B} :
                 \A i \in 1..Len(prompt.workflow[C].inputs) :
                   LET e == prompt.workflow[C].inputs[i]
                       matching == MatchingInputs(def, inputs, e[2][2])
                   IN e[2][1] = B =>
                        IF matching # {}
                        THEN \E j \in matching :
                               InputValues(workflow, C, e[1]) = {inputs[j][2]}
                        ELSE InputValues(workflow, C, e[1]) = {}

\* C9 amended: bypassing B raises no error and removes B from the submitted
\* workflow; an input of C that referenced (B, p), p being the k-th output
\* port of B of its type, holds the value of the k-th input of B, in the
\* order of B's inputs, whose declared type is that type, and is deleted if
\* B has fewer than k such inputs.
C9_RewiredByPortRank ==
  BypassOne =>
    LET B == prompt.bypassNodes[1]
        def == NodeDefs[prompt.workflow[B].class_type]
        inputs == prompt.workflow[B].inputs
    IN /\ bypassPc # "MissingNodeError"
       /\ bypassPc = "appendPrompt" =>
            /\ B \notin DOMAIN workflow
            /\ \A C \in DOMAIN prompt.workflow \ {B} :
                 \A i \in 1..Len(prompt.workflow[C].inputs) :
                   LET e == prompt.workflow[C].inputs[i]
                       matching == MatchingInputs(def, inputs, e[2][2])
                   IN e[2][1] = B =>
                        IF /\ matching # {}
                           /\ Cardinality(matching) >= PortRank(def, e[2][2])
                        THEN InputValues(workflow, C, e[1]) =
                               {inputs[NthOf(matching,
                                             PortRank(def, e[2][2]))][2]}
                        ELSE InputValues(workflow, C, e[1]) = {}

\* B has two output ports of one type and one input of that type; C
\* referenced both ports and keeps the input that referenced the first.
C9_Witness ==
  /\ bypassPc = "appendPrompt"
  /\ prompt.bypassNodes = <<"B">>
  /\ prompt.workflow["B"] =
       [class_type |-> "TwoOut", inputs |-> << <<"x", Ref("A", 0)>> >>]
  /\ prompt.workflow["C"].inputs =
       << <<"in1", Ref("B", 0)>>, <<"in2", Ref("B", 1)>> >>
  /\ workflow["C"].inputs = << <<"in1", Ref("A", 0)>> >>

\* C20: no step of enqueueJob, bypassWorkflowNodes or the submission changes
\* the workflow held by the caller's PromptBuilder, whatever nodes are
\* flagged.
C20_CallerWorkflowUnchanged ==
  [][prompt'.workflow = prompt.workflow]_vars

\* The submitted graph has lost B and C's input was rewritten or deleted,
\* while the PromptBuilder still holds one of the graphs A -> B -> C.
C20_Witness ==
  /\ bypassPc = "appendPrompt"
  /\ "B" \notin DOMAIN workflow
  /\ "C" \in DOMAIN workflow
  /\ prompt.workflow \in Workflows
  /\ workflow["C"].inputs # prompt.workflow["C"].inputs

\* C21: in the graph that is submitted after the bypass, no flagged node is
\* left and every input that is a reference names a node of the graph.
C21_NoDanglingReference ==
  bypassPc = "appendPrompt" =>
    /\ \A n \in Range(prompt.bypassNodes) : n \notin DOMAIN workflow
    /\ \A n \in DOMAIN workflow :
         \A i \in 1..Len(workflow[n].inputs) :
           LET value == workflow[n].inputs[i][2]
           IN value[1] # "" =>
                /\ value[1] \in DOMAIN workflow
                /\ value[1] \notin Range(prompt.bypassNodes)

\* A and B, which feeds on A, were both flagged, A first: only C is
\* submitted, and its two references to B are gone.
C21_Witness ==
  /\ bypassPc = "appendPrompt"
  /\ prompt.bypassNodes = <<"A", "B">>
  /\ prompt.workflow["B"].inputs = << <<"x", Ref("A", 0)>> >>
  /\ prompt.workflow["C"].inputs =
       << <<"in1", Ref("B", 0)>>, <<"in2", Ref("B", 1)>> >>
  /\ DOMAIN workflow = {"C"}
  /\ workflow["C"].inputs = <<>>

C30_RequiredBeforeOptional ==
  (/\ bypassPc = "appendPrompt"
   /\ prompt.bypassNodes = <<"B">>)
  => LET b == prompt.workflow["B"]
         def == NodeDefs[b.class_type]
         isRequired(e) == \E t \in {"T", "U"} : <<e[1], t>> \in def.required
         ordered == SelectSeq(b.inputs, isRequired)
                      \o SelectSeq(b.inputs, LAMBDA e : ~isRequired(e))
     IN workflow["C"].inputs =
          rewire(prompt.workflow["C"].inputs, "B",
                 connect(def, ordered, 0, {}, {}))

====
